---- MODULE Spec2Model ----
(***************************************************************************)
(* A model of slabDaemon.c: the per-cache sample series, the two window    *)
(* boundaries, the three tie histograms and the Mann-Kendall computation   *)
(* that monitor() runs for every reported cache in every cycle of main().  *)
(*                                                                         *)
(* Pointers are modelled as indices: every slab_MK owns a heap of its      *)
(* struct s nodes, numbered in allocation order, and NULL is index 0.      *)
(* A list of slab_buckets is a sequence whose first element is the head.   *)
(*                                                                         *)
(* Floating point: varS is kept as the exact fraction (first-second)/18    *)
(* and z as the pair (numerator, variance under the square root), so that  *)
(* the comparisons fabs(z) > criticalValue and z > 0 are decided exactly;  *)
(* sqrt of a negative variance and 0/0 give NaN, x/0 gives an infinity.    *)
(***************************************************************************)
EXTENDS Integers, Sequences, FiniteSets, TLC

VARIABLES delay, sort_func, slab_mk_values, i, pc, out

vars == <<delay, sort_func, slab_mk_values, i, pc, out>>

----------------------------------------------------------------------------
(* Program constants *)

MID_TERM == 3600
SHORT_TERM == 900
criticalValue == [num |-> 196, den |-> 100]
NULL == 0
(* the largest value of the int that holds a tie count and its products *)
INT_MAX == 2147483647

(* Bounds of the model *)

MaxCycles == 3
MaxActiveObjs == 2
OneCycles == 6
OneActiveObjs == 3
IncCycles == 30
IncStart == 3
LongCycles == 7
LongActiveObjs == 3
MaxTied == 1030

Names == {"dentry", "kmalloc-64"}
NameOrder == <<"dentry", "kmalloc-64">>
ObjSize == [n \in Names |-> IF n = "dentry" THEN 1 ELSE 2]
Delays == {0, 900, 1000, 4000}
OneDelays == {225, 450, 900}
IncDelays == {0, 30, 450}
LongDelays == {225}
SortFuncs == {"sort_nr_active_objs", "sort_name", "sort_obj_size"}
Horizons == {"Total", "MID_TERM", "SHORT_TERM"}

----------------------------------------------------------------------------
(* Sorting of the report: slabsort / merge_objs with the three sort_func *)

strcmp(a, b) ==
    LET rank(x) == CHOOSE k \in 1..Len(NameOrder) : NameOrder[k] = x
    IN  rank(a) - rank(b)

sort_name(a, b) == strcmp(a.name, b.name) < 0

sort_nr_active_objs(a, b) == a.nr_active_objs > b.nr_active_objs

sort_obj_size(a, b) == a.obj_size > b.obj_size

ApplySort(f, a, b) ==
    IF f = "sort_name" THEN sort_name(a, b)
    ELSE IF f = "sort_obj_size" THEN sort_obj_size(a, b)
    ELSE sort_nr_active_objs(a, b)

set_sort_func(key) ==
    IF key = "n" THEN "sort_name"
    ELSE IF key = "a" THEN "sort_nr_active_objs"
    ELSE IF key = "s" THEN "sort_obj_size"
    ELSE "sort_nr_active_objs"

RECURSIVE merge_objs(_, _, _)
merge_objs(f, a, b) ==
    IF a = <<>> \/ b = <<>> THEN (IF a = <<>> THEN b ELSE a)
    ELSE IF ApplySort(f, Head(a), Head(b))
         THEN <<Head(a)>> \o merge_objs(f, Tail(a), b)
         ELSE <<Head(b)>> \o merge_objs(f, a, Tail(b))

(* the slow/fast pointer walk of slabsort: the number of nodes left in a *)
RECURSIVE SplitWalk(_, _, _)
SplitWalk(n, slow, fast) ==
    IF fast <= n /\ fast + 1 <= n THEN SplitWalk(n, slow + 1, fast + 2) ELSE slow

RECURSIVE slabsort(_, _)
slabsort(f, list) ==
    IF Len(list) <= 1 THEN list
    ELSE LET cut == SplitWalk(Len(list), 1, 2)
         IN  merge_objs(f, slabsort(f, SubSeq(list, 1, cut)),
                           slabsort(f, SubSeq(list, cut + 1, Len(list))))

----------------------------------------------------------------------------
(* Lookups *)

(* a lookup that looks at the head of the registry only *)
searchSLAB_HeadOnly(s_mk_v, name) ==
    IF s_mk_v # <<>> /\ s_mk_v[1].name = name THEN 1 ELSE NULL

searchSLAB(s_mk_v, name) ==
    LET hits == {k \in 1..Len(s_mk_v) : s_mk_v[k].name = name}
    IN  IF hits = {} THEN NULL ELSE CHOOSE k \in hits : \A j \in hits : k <= j

searchBucket(buckets, value) ==
    LET hits == {k \in 1..Len(buckets) : buckets[k].value = value}
    IN  IF hits = {} THEN NULL ELSE CHOOSE k \in hits : \A j \in hits : k <= j

Window(H) == IF H = "MID_TERM" THEN MID_TERM ELSE SHORT_TERM

TiedBuckets(mk, H) ==
    IF H = "Total" THEN mk.tiedbucketsTotal
    ELSE IF H = "MID_TERM" THEN mk.tiedbucketsMID_TERM
    ELSE mk.tiedbucketsSHORT_TERM

(* value = nr_active_objs * obj_size: an unsigned int product, which does *)
(* not wrap for the object counts and sizes of the reports modelled here  *)
SlabValue(curr) == curr.nr_active_objs * curr.obj_size

----------------------------------------------------------------------------
(* Retention: first sample, retirement, histogram insertion, linking *)

NewBucket(value) == [value |-> value, tied |-> 1]

(* the short-term boundary left unset *)
NewSlabMK_NoShortBoundary(curr, timestamp) ==
    LET value == curr.nr_active_objs * curr.obj_size
    IN  [name |-> curr.name,
         heap |-> <<[next |-> NULL, prev |-> NULL,
                     timestamp |-> timestamp, value |-> value]>>,
         sValues |-> 1,
         lastMID_TERM |-> 1,
         lastSHORT_TERM |-> NULL,
         tiedbucketsTotal |-> <<NewBucket(value)>>,
         tiedbucketsMID_TERM |-> <<NewBucket(value)>>,
         tiedbucketsSHORT_TERM |-> <<NewBucket(value)>>]

NewSlabMK(curr, timestamp) ==
    LET value == SlabValue(curr)
    IN  [name |-> curr.name,
         heap |-> <<[next |-> NULL, prev |-> NULL,
                     timestamp |-> timestamp, value |-> value]>>,
         sValues |-> 1,
         lastMID_TERM |-> 1,
         lastSHORT_TERM |-> 1,
         tiedbucketsTotal |-> <<NewBucket(value)>>,
         tiedbucketsMID_TERM |-> <<NewBucket(value)>>,
         tiedbucketsSHORT_TERM |-> <<NewBucket(value)>>]

(* the test of lines 297 and 305 *)
AgedOut(timestamp, window, node) == timestamp - window > node.timestamp

(* a retirement that takes a bucket off the list once it is empty *)
UntieBucket_DropsEmpty(buckets, value) ==
    LET hits == {k \in 1..Len(buckets) : buckets[k].value = value}
    IN  IF hits = {} THEN buckets
        ELSE LET b == CHOOSE k \in hits : TRUE
             IN  IF buckets[b].tied = 1
                 THEN SubSeq(buckets, 1, b - 1) \o SubSeq(buckets, b + 1, Len(buckets))
                 ELSE [buckets EXCEPT ![b].tied = @ - 1]

UntieBucket(buckets, value) ==
    LET b == searchBucket(buckets, value)
    IN  IF b # NULL THEN [buckets EXCEPT ![b].tied = @ - 1] ELSE buckets

(* a boundary that stays on the sample it retired *)
Advance_Stays(heap, last) == last

(* the node a boundary moves to when its sample is retired *)
Advance(heap, last) == heap[last].prev

CleanMID_TERM(mk, timestamp) ==
    IF AgedOut(timestamp, MID_TERM, mk.heap[mk.lastMID_TERM])
    THEN [mk EXCEPT
            !.tiedbucketsMID_TERM = UntieBucket(@, mk.heap[mk.lastMID_TERM].value),
            !.lastMID_TERM = Advance(mk.heap, mk.lastMID_TERM)]
    ELSE mk

(* a copy of the mid-term block that keeps testing the mid-term window *)
CleanSHORT_TERM_MidWindow(mk, timestamp) ==
    IF AgedOut(timestamp, MID_TERM, mk.heap[mk.lastSHORT_TERM])
    THEN [mk EXCEPT
            !.tiedbucketsSHORT_TERM = UntieBucket(@, mk.heap[mk.lastSHORT_TERM].value),
            !.lastSHORT_TERM = Advance(mk.heap, mk.lastSHORT_TERM)]
    ELSE mk

CleanSHORT_TERM(mk, timestamp) ==
    IF AgedOut(timestamp, SHORT_TERM, mk.heap[mk.lastSHORT_TERM])
    THEN [mk EXCEPT
            !.tiedbucketsSHORT_TERM = UntieBucket(@, mk.heap[mk.lastSHORT_TERM].value),
            !.lastSHORT_TERM = Advance(mk.heap, mk.lastSHORT_TERM)]
    ELSE mk

(* the head bucket is counted up whatever its value *)
TieBucketHead(buckets, value) ==
    IF buckets # <<>> THEN [buckets EXCEPT ![1].tied = @ + 1]
    ELSE <<NewBucket(value)>>

TieBucket(buckets, value) ==
    LET b == searchBucket(buckets, value)
    IN  IF b # NULL THEN [buckets EXCEPT ![b].tied = @ + 1]
        ELSE <<NewBucket(value)>> \o buckets

LinkSample(mk, timestamp, value) ==
    LET new == Len(mk.heap) + 1
    IN  [mk EXCEPT
           !.heap = Append([mk.heap EXCEPT ![mk.sValues].prev = new],
                           [next |-> mk.sValues, prev |-> NULL,
                            timestamp |-> timestamp, value |-> value]),
           !.sValues = new]

(* the else branch of monitor() for a cache that is already registered *)
UpdateSlabMK(mk, curr, timestamp) ==
    LET cleaned == CleanSHORT_TERM(CleanMID_TERM(mk, timestamp), timestamp)
        value   == SlabValue(curr)
        counted == [cleaned EXCEPT
                      !.tiedbucketsTotal = TieBucket(@, value),
                      !.tiedbucketsMID_TERM = TieBucket(@, value),
                      !.tiedbucketsSHORT_TERM = TieBucket(@, value)]
    IN  LinkSample(counted, timestamp, value)

(* lines 297 and 305 read ->timestamp through the boundary pointers *)
NullDeref(mk) == mk.lastMID_TERM = NULL \/ mk.lastSHORT_TERM = NULL

----------------------------------------------------------------------------
(* Mann-Kendall statistic engine: lines 358-491 *)

(* a window that leaves out the sample lying exactly on its edge *)
InWindowStrict(node, timestamp, H) ==
    H = "Total" \/ node.timestamp > timestamp - Window(H)

InWindow(node, timestamp, H) ==
    H = "Total" \/ node.timestamp >= timestamp - Window(H)

(* equal values counted as an increase *)
PairTermGe(newer, older, timestamp, H) ==
    IF InWindow(newer, timestamp, H) /\ InWindow(older, timestamp, H)
    THEN IF newer.value >= older.value THEN 1 ELSE -1
    ELSE 0

(* the contribution of one pair (actualS newer, actual older) to accum<H> *)
PairTerm(newer, older, timestamp, H) ==
    IF InWindow(newer, timestamp, H) /\ InWindow(older, timestamp, H)
    THEN IF newer.value > older.value THEN 1
         ELSE IF newer.value < older.value THEN -1
         ELSE 0
    ELSE 0

(* the inner while (actual) loop, lines 377-396 *)
RECURSIVE InnerLoop(_, _, _, _, _)
InnerLoop(heap, actualS, actual, timestamp, H) ==
    IF actual = NULL THEN 0
    ELSE PairTerm(heap[actualS], heap[actual], timestamp, H)
         + InnerLoop(heap, actualS, heap[actual].next, timestamp, H)

(* the outer while (actualS) loop, lines 374-405: accum<H> *)
RECURSIVE Accum(_, _, _, _)
Accum(heap, actualS, timestamp, H) ==
    IF actualS = NULL THEN 0
    ELSE InnerLoop(heap, actualS, heap[actualS].next, timestamp, H)
         + Accum(heap, heap[actualS].next, timestamp, H)

(* counter<H>, lines 397-403 *)
RECURSIVE Counter(_, _, _, _)
Counter(heap, actualS, timestamp, H) ==
    IF actualS = NULL THEN 0
    ELSE (IF InWindow(heap[actualS], timestamp, H) THEN 1 ELSE 0)
         + Counter(heap, heap[actualS].next, timestamp, H)

(* a * b in int, for 0 <= a and 0 <= b < 2^15: the low 32 bits of the     *)
(* product read as a signed number, which is what the multiplication      *)
(* leaves when the product does not fit                                   *)
Int32Mul(a, b) ==
    LET lo == (a % 65536) * b
        hi == ((a \div 65536) * b + lo \div 65536) % 65536
    IN  (IF hi >= 32768 THEN hi - 65536 ELSE hi) * 65536 + (lo % 65536)

(* the signed product a * b does not fit an int: undefined behaviour *)
Int32MulOverflows(a, b) == b > 0 /\ a > INT_MAX \div b

(* the int expression of lines 413, 422 and 431 *)
TieTerm(tied) == Int32Mul(Int32Mul(tied, tied - 1), 2 * tied + 5)

TieTermOverflows(tied) ==
    \/ Int32MulOverflows(tied, tied - 1)
    \/ Int32MulOverflows(Int32Mul(tied, tied - 1), 2 * tied + 5)

(* secondPartVariance<H>, lines 408-434 *)
RECURSIVE SecondPartVariance(_)
SecondPartVariance(buckets) ==
    IF buckets = <<>> THEN 0
    ELSE (IF Head(buckets).tied > 1 THEN TieTerm(Head(buckets).tied) ELSE 0)
         + SecondPartVariance(Tail(buckets))

FirstPartVariance(counter) ==
    IF counter > 1 THEN counter * (counter - 1) * (2 * counter + 5) ELSE 0

(* varS<H> as the fraction num/den *)
VarS(counter, first, second) ==
    IF counter > 1 THEN [num |-> first - second, den |-> 18]
    ELSE [num |-> 0, den |-> 18]

(* z<H> = num / sqrt(var) when divided, the constant 0 otherwise *)
ZScore(counter, accum, varS) ==
    IF counter > 1
    THEN IF accum < 0 THEN [divided |-> TRUE, num |-> accum + 1, var |-> varS]
         ELSE IF accum > 0 THEN [divided |-> TRUE, num |-> accum - 1, var |-> varS]
         ELSE [divided |-> FALSE, num |-> 0, var |-> varS]
    ELSE [divided |-> FALSE, num |-> 0, var |-> varS]

(* IEEE outcomes of num / sqrt(var) *)
ZIsNaN(z) == z.divided /\ (z.var.num < 0 \/ (z.var.num = 0 /\ z.num = 0))

ZIsInfinite(z) == z.divided /\ z.var.num = 0 /\ z.num # 0

(* a/b > c/d for a, c >= 0 and b, d > 0, by the continued-fraction steps, *)
(* so that no product leaves the range of the model checker's integers   *)
RECURSIVE FracGreater(_, _, _, _)
FracGreater(a, b, c, d) ==
    IF a \div b # c \div d THEN a \div b > c \div d
    ELSE IF a % b = 0 THEN FALSE
    ELSE IF c % d = 0 THEN TRUE
    ELSE FracGreater(d, c % d, b, a % b)

(* fabs(z) > c for the fraction c: z*z = num*num / var > c*c *)
FabsGreater(z, c) ==
    IF ~z.divided THEN FALSE
    ELSE IF ZIsNaN(z) THEN FALSE
    ELSE IF ZIsInfinite(z) THEN TRUE
    ELSE FracGreater(z.num * z.num * z.var.den, z.var.num, c.num * c.num, c.den * c.den)

(* z > 0 *)
ZPositive(z) == z.divided /\ ~ZIsNaN(z) /\ z.num > 0

(* a two-sided test: a significant decrease is flagged as well *)
TrendTwoSided(z) == IF FabsGreater(z, criticalValue) THEN "YES" ELSE "NO"

Trend(z) ==
    IF FabsGreater(z, criticalValue)
    THEN (IF ZPositive(z) THEN "YES" ELSE "NO")
    ELSE "NO"

(* the record fprintf writes for one cache, lines 498-501 *)
MannKendall(mk, curr, timestamp) ==
    LET accum   == [H \in Horizons |-> Accum(mk.heap, mk.sValues, timestamp, H)]
        counter == [H \in Horizons |-> Counter(mk.heap, mk.sValues, timestamp, H)]
        second  == [H \in Horizons |-> SecondPartVariance(TiedBuckets(mk, H))]
        first   == [H \in Horizons |-> FirstPartVariance(counter[H])]
        varS    == [H \in Horizons |-> VarS(counter[H], first[H], second[H])]
        z       == [H \in Horizons |-> ZScore(counter[H], accum[H], varS[H])]
    IN  [timestamp |-> timestamp,
         nr_active_objs |-> curr.nr_active_objs,
         obj_size |-> curr.obj_size,
         name |-> curr.name,
         accum |-> accum,
         counter |-> counter,
         varS |-> varS,
         firstPartVariance |-> first,
         secondPartVariance |-> second,
         z |-> z,
         trend |-> [H \in Horizons |-> Trend(z[H])]]

----------------------------------------------------------------------------
(* monitor(): the while (curr) loop over the sorted report, lines 259-505. *)
(* A NULL boundary pointer read at line 297 or 305 ends the process.       *)

RECURSIVE MonitorLoop(_, _, _, _)
MonitorLoop(list, timestamp, mks, written) ==
    IF list = <<>> THEN [mks |-> mks, out |-> written, crashed |-> FALSE]
    ELSE LET curr == Head(list)
             k    == searchSLAB(mks, curr.name)
         IN  IF k = NULL
             THEN LET mk == NewSlabMK(curr, timestamp)
                  IN  MonitorLoop(Tail(list), timestamp, <<mk>> \o mks,
                                  Append(written, MannKendall(mk, curr, timestamp)))
             ELSE IF NullDeref(mks[k])
             THEN [mks |-> mks, out |-> written, crashed |-> TRUE]
             ELSE LET mk == UpdateSlabMK(mks[k], curr, timestamp)
                  IN  MonitorLoop(Tail(list), timestamp, [mks EXCEPT ![k] = mk],
                                  Append(written, MannKendall(mk, curr, timestamp)))

(* one turn of main()'s loop with get_slabinfo() delivering slab_list *)
Monitor(slab_list) ==
    /\ pc = "loop"
    /\ \E r \in {MonitorLoop(slabsort(sort_func, slab_list), i * delay,
                            slab_mk_values, <<>>)} :
           /\ slab_mk_values' = r.mks
           /\ out' = r.out
           /\ pc' = IF r.crashed THEN "crashed" ELSE "loop"
           /\ i' = IF r.crashed THEN i ELSE i + 1
    /\ UNCHANGED <<delay, sort_func>>

(* a failure path that also gives up the registry *)
MonitorFails_DropsRegistry ==
    /\ pc = "loop"
    /\ pc' = "stopped"
    /\ out' = <<>>
    /\ slab_mk_values' = <<>>
    /\ UNCHANGED <<delay, sort_func, i>>

(* get_slabinfo() fails: monitor returns 1 and main leaves the loop *)
MonitorFails ==
    /\ pc = "loop"
    /\ pc' = "stopped"
    /\ out' = <<>>
    /\ UNCHANGED <<delay, sort_func, slab_mk_values, i>>

----------------------------------------------------------------------------
(* Reports get_slabinfo() can deliver: caches with distinct names, in any *)
(* order                                                                  *)

SlabInfos(names, maxObjs) ==
    {[name |-> n, nr_active_objs |-> a, obj_size |-> ObjSize[n]] :
        n \in names, a \in 1..maxObjs}

Reports(names, maxObjs) ==
    {l \in UNION {[1..n -> SlabInfos(names, maxObjs)] : n \in 0..Cardinality(names)} :
        \A x, y \in DOMAIN l : x # y => l[x].name # l[y].name}

AllReports == Reports(Names, MaxActiveObjs)
OneReports == Reports({"dentry"}, OneActiveObjs)
LongReports == Reports({"dentry"}, LongActiveObjs)

StartOfMain(delays, sorts) ==
    /\ delay \in delays
    /\ sort_func \in sorts
    /\ slab_mk_values = <<>>
    /\ i = 0
    /\ pc = "loop"
    /\ out = <<>>

(* Spec: two caches, every sort key *)
Init == StartOfMain(Delays, SortFuncs)

Cycle == i < MaxCycles /\ \E slab_list \in AllReports : Monitor(slab_list)

Next == Cycle \/ MonitorFails

Spec == Init /\ [][Next]_vars

(* SpecOne: one cache, more cycles *)
InitOne == StartOfMain(OneDelays, {set_sort_func("a")})

CycleOne == i < OneCycles /\ \E slab_list \in OneReports : Monitor(slab_list)

NextOne == CycleOne \/ MonitorFails

SpecOne == InitOne /\ [][NextOne]_vars

(* SpecLong: one cache at a delay of 225 s, one cycle more than SpecOne *)
InitLong == StartOfMain(LongDelays, {set_sort_func("a")})

CycleLong == i < LongCycles /\ \E slab_list \in LongReports : Monitor(slab_list)

NextLong == CycleLong \/ MonitorFails

SpecLong == InitLong /\ [][NextLong]_vars

(* SpecInc: one cache reported in every cycle, each value one above the last *)
InitInc == StartOfMain(IncDelays, {set_sort_func("a")})

IncActiveObjs ==
    IF slab_mk_values = <<>> THEN 1..IncStart
    ELSE LET mk == slab_mk_values[1] IN {mk.heap[mk.sValues].value + 1}

CycleInc ==
    /\ i < IncCycles
    /\ \E a \in IncActiveObjs :
          Monitor(<<[name |-> "dentry", nr_active_objs |-> a,
                     obj_size |-> ObjSize["dentry"]]>>)

NextInc == CycleInc \/ MonitorFails

SpecInc == InitInc /\ [][NextInc]_vars

(* SpecTie: the tie sum of lines 408-416 on the total histogram that a    *)
(* run of `tied` equal samples leaves, which is a single bucket. Where the *)
(* int product overflows the build either keeps the low 32 bits or, when   *)
(* compiled to trap on overflow, ends the process.                         *)
InitTie == StartOfMain({0}, {set_sort_func("a")})

TieSum ==
    /\ pc = "loop"
    /\ \E tied \in 1..MaxTied :
          \/ /\ out' = <<[tied |-> tied,
                          secondPartVariance |->
                              SecondPartVariance(<<[value |-> 1, tied |-> tied]>>)]>>
             /\ pc' = "loop"
          \/ /\ TieTermOverflows(tied)
             /\ out' = <<>>
             /\ pc' = "crashed"
    /\ UNCHANGED <<delay, sort_func, slab_mk_values, i>>

NextTie == TieSum

SpecTie == InitTie /\ [][NextTie]_vars

----------------------------------------------------------------------------
(* Vocabulary of the properties: stated on the variables alone *)

Written == {out[k] : k \in DOMAIN out}

StateOf(name) ==
    LET k == CHOOSE k \in DOMAIN slab_mk_values : slab_mk_values[k].name = name
    IN  slab_mk_values[k]

Bounded == {"MID_TERM", "SHORT_TERM"}

Span(H) == IF H = "MID_TERM" THEN 3600 ELSE 900

(* the samples of mk that lie in horizon H at time now *)
Samples(mk, now, H) ==
    {k \in DOMAIN mk.heap : H = "Total" \/ mk.heap[k].timestamp >= now - Span(H)}

Histogram(mk, H) ==
    IF H = "Total" THEN mk.tiedbucketsTotal
    ELSE IF H = "MID_TERM" THEN mk.tiedbucketsMID_TERM
    ELSE mk.tiedbucketsSHORT_TERM

Boundary(mk, H) == IF H = "MID_TERM" THEN mk.lastMID_TERM ELSE mk.lastSHORT_TERM

RECURSIVE SumOf(_, _)
SumOf(f, S) ==
    IF S = {} THEN 0
    ELSE LET x == CHOOSE y \in S : TRUE IN f[x] + SumOf(f, S \ {x})

TiedSum(buckets) == SumOf([k \in DOMAIN buckets |-> buckets[k].tied], DOMAIN buckets)

(* the count histogram `buckets` holds for `value` *)
TiedOf(buckets, value) ==
    SumOf([k \in DOMAIN buckets |-> buckets[k].tied],
          {k \in DOMAIN buckets : buckets[k].value = value})

(* S over the samples in `S`: +1 for a pair whose newer value is larger, *)
(* -1 for a pair whose newer value is smaller, each pair once            *)
PairSum(mk, S) ==
    Cardinality({p \in S \X S : p[1] < p[2] /\ mk.heap[p[2]].value > mk.heap[p[1]].value})
    - Cardinality({p \in S \X S : p[1] < p[2] /\ mk.heap[p[2]].value < mk.heap[p[1]].value})

(* 18 times the tie-corrected variance of the values of the samples in `S` *)
DirectVarNum(mk, S) ==
    LET n    == Cardinality(S)
        vals == {mk.heap[k].value : k \in S}
        t    == [v \in vals |-> Cardinality({k \in S : mk.heap[k].value = v})]
    IN  n * (n - 1) * (2 * n + 5)
        - SumOf([v \in vals |-> IF t[v] > 1 THEN t[v] * (t[v] - 1) * (2 * t[v] + 5) ELSE 0],
                vals)

SameValues(mk) == \A j, k \in DOMAIN mk.heap : mk.heap[j].value = mk.heap[k].value

Increasing(mk) ==
    \A j, k \in DOMAIN mk.heap : j < k => mk.heap[j].value < mk.heap[k].value

(* the two samples of mk lie further apart than the short window, not *)
(* further than the mid-term window                                   *)
TwoSamplesApart(mk) ==
    /\ Len(mk.heap) = 2
    /\ mk.heap[2].timestamp - mk.heap[1].timestamp > 900
    /\ mk.heap[2].timestamp - mk.heap[1].timestamp <= 3600

----------------------------------------------------------------------------
(* C1: at the end of a cycle, for every cache processed in it and every   *)
(* horizon, the tied counts of the histogram add up to the number of      *)
(* samples inside the horizon's window.                                   *)
C1_TiedSumIsWindowCount ==
    \A o \in Written : \A H \in Horizons :
        TiedSum(Histogram(StateOf(o.name), H))
            = Cardinality(Samples(StateOf(o.name), o.timestamp, H))

(* C2: at the end of a cycle, for every cache processed in it, each       *)
(* bounded boundary references a node of the series, that node is the     *)
(* oldest sample inside the window, and every newer node is inside it.    *)
C2_BoundaryIsOldestInWindow ==
    \A o \in Written : \A H \in Bounded :
        LET mk     == StateOf(o.name)
            b      == Boundary(mk, H)
            inside == Samples(mk, o.timestamp, H)
        IN  /\ b \in DOMAIN mk.heap
            /\ b \in inside
            /\ \A k \in inside : b <= k
            /\ \A k \in DOMAIN mk.heap : k > b => k \in inside

(* C3: once the second of two samples more than 900 s and at most 3600 s  *)
(* apart is processed, the short-term histogram no longer counts the      *)
(* first sample, and the mid-term and total histograms still do.          *)
C3_ShortRetiredOnce ==
    \A k \in DOMAIN slab_mk_values :
        LET mk   == slab_mk_values[k]
            v1   == mk.heap[1].value
            same == IF mk.heap[2].value = v1 THEN 1 ELSE 0
        IN  TwoSamplesApart(mk) =>
               /\ TiedOf(mk.tiedbucketsSHORT_TERM, v1) = same
               /\ TiedOf(mk.tiedbucketsMID_TERM, v1) = same + 1
               /\ TiedOf(mk.tiedbucketsTotal, v1) = same + 1

C3_Witness ==
    \E k \in DOMAIN slab_mk_values :
        /\ TwoSamplesApart(slab_mk_values[k])
        /\ slab_mk_values[k].heap[2].value # slab_mk_values[k].heap[1].value
        /\ pc = "loop"

(* C4: the n written for a horizon is the number of samples inside its    *)
(* window and the S written is the sum of sign(newer - older) over the    *)
(* pairs of those samples, each pair once.                                *)
C4_CountAndSPerHorizon ==
    \A o \in Written : \A H \in Horizons :
        LET mk == StateOf(o.name)
            S  == Samples(mk, o.timestamp, H)
        IN  /\ o.counter[H] = Cardinality(S)
            /\ o.accum[H] = PairSum(mk, S)

C4_Witness ==
    \E o \in Written :
        /\ o.counter["SHORT_TERM"] > 1
        /\ o.counter["SHORT_TERM"] < o.counter["MID_TERM"]
        /\ o.counter["MID_TERM"] < o.counter["Total"]
        /\ o.accum["SHORT_TERM"] # 0
        /\ o.accum["SHORT_TERM"] # o.accum["MID_TERM"]
        /\ o.accum["MID_TERM"] # o.accum["Total"]

(* C5: for n > 1 the variance written for a horizon is the tie-corrected  *)
(* variance of the values of the samples inside the window; for n <= 1    *)
(* the variance is 0 and Z is 0.                                          *)
C5_VarianceOfWindowValues ==
    \A o \in Written : \A H \in Horizons :
        LET mk == StateOf(o.name)
            S  == Samples(mk, o.timestamp, H)
        IN  IF Cardinality(S) > 1
            THEN o.varS[H] = [num |-> DirectVarNum(mk, S), den |-> 18]
            ELSE o.varS[H].num = 0 /\ ~o.z[H].divided

(* C6: the flag is "YES" exactly when Z > 1.96, Z being (S-1)/sqrt(var)   *)
(* for S > 0, (S+1)/sqrt(var) for S < 0 and 0 for S = 0: that is, when    *)
(* n > 1, S > 1, var >= 0 and (S-1)^2 > 1.96^2 * var. A significant       *)
(* decrease gives "NO".                                                   *)
C6_YesIffZAboveCritical ==
    \A o \in Written : \A H \in Horizons :
        LET S == o.accum[H]
            v == o.varS[H]
        IN  /\ o.trend[H] \in {"YES", "NO"}
            /\ o.counter[H] > 1 /\ S # 0 =>
                  /\ o.z[H].divided
                  /\ o.z[H].num = (IF S > 0 THEN S - 1 ELSE S + 1)
                  /\ o.z[H].var = v
            /\ o.counter[H] <= 1 \/ S = 0 => ~o.z[H].divided
            /\ o.trend[H] = "YES" <=>
                  /\ o.counter[H] > 1
                  /\ S > 1
                  /\ v.num >= 0
                  /\ (S - 1) * (S - 1) * v.den * 10000 > 38416 * v.num

C6_Witness ==
    \E o \in Written : \E H \in Horizons :
        o.trend[H] = "YES" /\ o.varS[H].num > 0

(* C7: for a cache reported in every cycle with strictly increasing       *)
(* values, and a horizon holding all k samples: S = k(k-1)/2, every       *)
(* bucket of a value inside the window has tied = 1, the variance is      *)
(* k(k-1)(2k+5)/18, and for k = 30 the flag is "YES".                     *)
C7_IncreasingSeries ==
    \A o \in Written : \A H \in Horizons :
        LET mk == StateOf(o.name)
            k  == Len(mk.heap)
            hs == Histogram(mk, H)
        IN  (k = i /\ Increasing(mk) /\ Samples(mk, o.timestamp, H) = DOMAIN mk.heap) =>
               /\ 2 * o.accum[H] = k * (k - 1)
               /\ \A b \in DOMAIN hs :
                     (\E j \in DOMAIN mk.heap : mk.heap[j].value = hs[b].value)
                        => hs[b].tied = 1
               /\ o.varS[H] = [num |-> k * (k - 1) * (2 * k + 5), den |-> 18]
               /\ k = 30 => o.trend[H] = "YES"

C7_Witness ==
    \E o \in Written :
        LET mk == StateOf(o.name)
        IN  /\ Len(mk.heap) = 30
            /\ i = 30
            /\ Increasing(mk)
            /\ delay > 0
            /\ Samples(mk, o.timestamp, "SHORT_TERM") = DOMAIN mk.heap
            /\ o.trend["SHORT_TERM"] = "YES"

(* C8: for a cache all of whose n > 1 samples have the same value, every  *)
(* horizon has S = 0, Z = 0 and the flag "NO".                            *)
C8_ConstantSeries ==
    \A o \in Written :
        LET mk == StateOf(o.name)
        IN  (Len(mk.heap) > 1 /\ SameValues(mk)) =>
               \A H \in Horizons :
                  /\ o.accum[H] = 0
                  /\ ~o.z[H].divided
                  /\ o.z[H].num = 0
                  /\ o.trend[H] = "NO"

C8_Witness ==
    \E o \in Written :
        /\ Len(StateOf(o.name).heap) >= 5
        /\ SameValues(StateOf(o.name))
        /\ o.counter["SHORT_TERM"] > 1

(* C9: in the cycle that first observes a cache, its series is a single   *)
(* node, both boundaries reference it, each histogram is the one bucket   *)
(* {value, tied 1}, and every horizon has variance 0, Z = 0 and "NO".     *)
C9_FirstObservation ==
    \A o \in Written :
        LET mk == StateOf(o.name)
            v  == o.nr_active_objs * o.obj_size
        IN  Len(mk.heap) = 1 =>
               /\ mk.sValues = 1
               /\ mk.heap[1] = [next |-> 0, prev |-> 0,
                                timestamp |-> o.timestamp, value |-> v]
               /\ mk.lastMID_TERM = 1
               /\ mk.lastSHORT_TERM = 1
               /\ \A H \in Horizons :
                     /\ Histogram(mk, H) = <<[value |-> v, tied |-> 1]>>
                     /\ o.counter[H] = 1
                     /\ o.varS[H].num = 0
                     /\ ~o.z[H].divided
                     /\ o.trend[H] = "NO"

C9_Witness ==
    \E o \in Written :
        /\ Len(StateOf(o.name).heap) = 1
        /\ i > 1
        /\ Len(slab_mk_values) = 2

(* C10: with the critical value 1.96 a horizon is flagged "YES" only if   *)
(* it holds at least five samples.                                        *)
C10_YesNeedsFiveSamples ==
    \A o \in Written : \A H \in Horizons :
        o.trend[H] = "YES" =>
            Cardinality(Samples(StateOf(o.name), o.timestamp, H)) >= 5

----------------------------------------------------------------------------
(* Vocabulary of the properties of a whole cycle *)

NamesIn(slab_list) == {slab_list[k].name : k \in DOMAIN slab_list}

(* the states the registry mks holds under `name` *)
EntitiesOf(mks, name) == {mks[k] : k \in {j \in DOMAIN mks : mks[j].name = name}}

(* the records of `name` among the records `written` *)
RecordsOf(written, name) ==
    {written[k] : k \in {j \in DOMAIN written : written[j].name = name}}

(* n_total of `name`: the length of its series, 0 while it is unknown *)
NTotal(mks, name) ==
    LET S == EntitiesOf(mks, name)
    IN  IF S = {} THEN 0 ELSE Len((CHOOSE mk \in S : TRUE).heap)

(* C11: in every cycle the series of a cache grows by exactly one sample  *)
(* if the cycle's report contains the cache and keeps its length if not;  *)
(* no step ever shortens a series.                                        *)
C11_SeriesGrowsByOne ==
    [][/\ \A slab_list \in AllReports :
             Monitor(slab_list) =>
                \A n \in Names :
                   NTotal(slab_mk_values', n)
                      = NTotal(slab_mk_values, n)
                           + (IF n \in NamesIn(slab_list) THEN 1 ELSE 0)
       /\ \A n \in Names : NTotal(slab_mk_values', n) >= NTotal(slab_mk_values, n)]_vars

(* C12: a cycle leaves the whole state (series, both boundaries, the      *)
(* three histograms) of every registered cache it writes no record for as *)
(* it was, and a cache absent from the report gets no record; no step     *)
(* drops a cache from the registry, and the registry never holds two      *)
(* states under one name.                                                 *)
C12_AbsentUntouched ==
    [][/\ \A k \in DOMAIN slab_mk_values :
             LET mk == slab_mk_values[k]
             IN  /\ EntitiesOf(slab_mk_values', mk.name) # {}
                 /\ RecordsOf(out', mk.name) = {} =>
                        EntitiesOf(slab_mk_values', mk.name) = {mk}
       /\ \A j, k \in DOMAIN slab_mk_values' :
             j # k => slab_mk_values'[j].name # slab_mk_values'[k].name]_vars

C12_Witness ==
    /\ Len(slab_mk_values) = 2
    /\ Len(out) = 1
    /\ Len(StateOf(out[1].name).heap) > 1
    /\ pc = "loop"

(* C13: the step in which get_slabinfo() fails changes the state of no    *)
(* cache, writes no record and does not count as a cycle; it leaves the   *)
(* loop, and once the loop is left no further step is taken.              *)
C13_FailureStops ==
    [][/\ pc # "stopped"
       /\ pc' = "stopped" =>
             /\ slab_mk_values' = slab_mk_values
             /\ out' = <<>>
             /\ i' = i]_vars

C13_Witness ==
    /\ pc = "stopped"
    /\ i > 1
    /\ slab_mk_values # <<>>

(* C14: what a cycle does to a cache of its report (the state it leaves   *)
(* and the record it writes) is what the cycle would do were the cache    *)
(* alone in the report: it depends neither on the sort key and the order  *)
(* the report is walked in nor on the other caches of the report.         *)
C14_OrderIndependent ==
    pc = "loop" =>
       \A slab_list \in AllReports : \A f \in SortFuncs : \A k \in DOMAIN slab_list :
          LET all   == MonitorLoop(slabsort(f, slab_list), i * delay,
                                   slab_mk_values, <<>>)
              alone == MonitorLoop(<<slab_list[k]>>, i * delay, slab_mk_values, <<>>)
              name  == slab_list[k].name
          IN  /\ EntitiesOf(all.mks, name) = EntitiesOf(alone.mks, name)
              /\ RecordsOf(all.out, name) = RecordsOf(alone.out, name)

----------------------------------------------------------------------------
(* The looped retirement: while the sample under the boundary of H is    *)
(* older than t - window[H], take it out of the histogram of H and move  *)
(* the boundary to the next newer sample.                                *)

Decrement(buckets, value) ==
    [k \in DOMAIN buckets |->
        IF buckets[k].value = value
        THEN [value |-> value, tied |-> buckets[k].tied - 1]
        ELSE buckets[k]]

Increment(buckets, value) ==
    IF \E k \in DOMAIN buckets : buckets[k].value = value
    THEN [k \in DOMAIN buckets |->
             IF buckets[k].value = value
             THEN [value |-> value, tied |-> buckets[k].tied + 1]
             ELSE buckets[k]]
    ELSE <<[value |-> value, tied |-> 1]>> \o buckets

(* the boundary and the histogram of H the loop leaves, started on mk at t *)
RECURSIVE RetireLoop(_, _, _, _, _)
RetireLoop(heap, b, buckets, H, t) ==
    IF b \in DOMAIN heap /\ heap[b].timestamp < t - Span(H)
    THEN RetireLoop(heap, heap[b].prev, Decrement(buckets, heap[b].value), H, t)
    ELSE [boundary |-> b, histogram |-> buckets]

(* C15: for a cache reported in every cycle, at a delay not above the    *)
(* window of H, each cycle leaves the boundary of H and the histogram of *)
(* H that the looped retirement, followed by the count of the new value, *)
(* leaves.                                                               *)
SingleStepIsLoop(reports) ==
    \A slab_list \in reports :
       Monitor(slab_list) =>
          \A k \in DOMAIN slab_list : \A H \in Bounded :
             \A mk \in EntitiesOf(slab_mk_values, slab_list[k].name) :
                (Len(mk.heap) = i /\ delay <= Span(H)) =>
                   LET ref == RetireLoop(mk.heap, Boundary(mk, H), Histogram(mk, H),
                                         H, i * delay)
                       v   == slab_list[k].nr_active_objs * slab_list[k].obj_size
                   IN  \E after \in EntitiesOf(slab_mk_values', mk.name) :
                          /\ Boundary(after, H) = ref.boundary
                          /\ Histogram(after, H) = Increment(ref.histogram, v)

C15_SingleStepIsLoop == [][SingleStepIsLoop(AllReports)]_vars

(* the same for the delays up to the short window, where both boundaries *)
(* stay on the series                                                    *)
C15_UpToShortWindow == [][SingleStepIsLoop(OneReports)]_vars

----------------------------------------------------------------------------
(* C16: both boundaries of every registered cache reference a node of its *)
(* series, so the retirement step of the next cycle that processes the    *)
(* cache reads the timestamp of a node; no run ends in a read through a   *)
(* NULL boundary.                                                         *)
C16_BoundariesOnSeries ==
    /\ \A k \in DOMAIN slab_mk_values : \A H \in Bounded :
          Boundary(slab_mk_values[k], H) \in DOMAIN slab_mk_values[k].heap
    /\ pc # "crashed"

(* C17: whenever the z of a horizon is computed by a division (n > 1 and  *)
(* S # 0), the variance under the square root is positive.                *)
C17_DivisorPositive ==
    \A o \in Written : \A H \in Horizons :
        (o.counter[H] > 1 /\ o.accum[H] # 0) => o.varS[H].num > 0

----------------------------------------------------------------------------
(* C18: for every tie count the tie sum of a bucket is computed and is    *)
(* the number tied * (tied - 1) * (2 * tied + 5): it is not negative, it  *)
(* is a multiple of 2 * tied + 5 and the quotient is tied * (tied - 1).   *)
C18_TieTermExact ==
    /\ pc # "crashed"
    /\ \A o \in Written :
          /\ o.secondPartVariance >= 0
          /\ o.secondPartVariance % (2 * o.tied + 5) = 0
          /\ o.secondPartVariance \div (2 * o.tied + 5) = o.tied * (o.tied - 1)

----------------------------------------------------------------------------
ValuesOf(buckets) == {buckets[k].value : k \in DOMAIN buckets}

(* C19: in every state a step leads to, no histogram holds two buckets of *)
(* one value; a step removes no bucket; a step that adds a sample to a    *)
(* cache adds a bucket to a histogram only if the histogram has none for  *)
(* the sample's value, and a bucket found empty for that value is the one *)
(* that counts the sample.                                                *)
C19_OneBucketPerValue ==
    [][\A k \in DOMAIN slab_mk_values' : \A H \in Horizons :
          LET after == slab_mk_values'[k]
              hs2   == Histogram(after, H)
              v     == after.heap[after.sValues].value
          IN  /\ \A a, b \in DOMAIN hs2 : a # b => hs2[a].value # hs2[b].value
              /\ \A mk \in EntitiesOf(slab_mk_values, after.name) :
                    LET hs == Histogram(mk, H)
                    IN  /\ ValuesOf(hs) \subseteq ValuesOf(hs2)
                        /\ Len(after.heap) = Len(mk.heap) => Len(hs2) = Len(hs)
                        /\ Len(after.heap) > Len(mk.heap) =>
                              /\ Len(hs2) = Len(hs) + (IF v \in ValuesOf(hs) THEN 0 ELSE 1)
                              /\ TiedOf(hs2, v) >= 1
                              /\ (v \in ValuesOf(hs) /\ TiedOf(hs, v) = 0) =>
                                     TiedOf(hs2, v) = 1]_vars

(* the newest sample repeats the value of the oldest one, whose bucket in *)
(* the short-term histogram was empty before                              *)
C19_Witness ==
    \E k \in DOMAIN slab_mk_values :
        LET mk == slab_mk_values[k]
            n  == Len(mk.heap)
        IN  /\ n >= 3
            /\ mk.heap[n].value = mk.heap[1].value
            /\ \A j \in 2..(n - 1) : mk.heap[j].value # mk.heap[1].value
            /\ mk.lastSHORT_TERM >= 3
            /\ Len(mk.tiedbucketsSHORT_TERM) = 2
            /\ TiedOf(mk.tiedbucketsSHORT_TERM, mk.heap[1].value) = 1
            /\ TiedSum(mk.tiedbucketsSHORT_TERM)
                  = Cardinality(Samples(mk, mk.heap[n].timestamp, "SHORT_TERM"))

(* C20: no step leads to a state in which a bucket of a histogram holds a *)
(* negative tied count, and a step leaves each boundary of a cache where  *)
(* it was or moves it over one sample towards the newer ones, so that no  *)
(* sample is retired twice.                                               *)
C20_TiedNotNegative ==
    [][\A k \in DOMAIN slab_mk_values' :
          LET after == slab_mk_values'[k]
          IN  /\ \A H \in Horizons : \A b \in DOMAIN Histogram(after, H) :
                    Histogram(after, H)[b].tied >= 0
              /\ \A mk \in EntitiesOf(slab_mk_values, after.name) : \A H \in Bounded :
                    \/ Boundary(after, H) = Boundary(mk, H)
                    \/ /\ Boundary(mk, H) \in DOMAIN mk.heap
                       /\ Boundary(after, H) = mk.heap[Boundary(mk, H)].prev
                       /\ TiedSum(Histogram(after, H)) = TiedSum(Histogram(mk, H))]_vars

(* a bounded histogram that has given back every sample it counted but    *)
(* the newest two, the boundary having moved over the retired ones        *)
C20_Witness ==
    \E k \in DOMAIN slab_mk_values : \E H \in Bounded :
        LET mk == slab_mk_values[k]
        IN  /\ Boundary(mk, H) >= 3
            /\ \E b \in DOMAIN Histogram(mk, H) : Histogram(mk, H)[b].tied = 0
            /\ TiedSum(Histogram(mk, H)) = Len(mk.heap) - Boundary(mk, H) + 1

----------------------------------------------------------------------------
(* C21: in the series of every cache the timestamps strictly increase     *)
(* from the oldest sample to the newest one, and each of them is the      *)
(* timestamp c * delay of a cycle c that was run.                         *)
C21_TimestampsIncrease ==
    \A k \in DOMAIN slab_mk_values :
        LET heap == slab_mk_values[k].heap
        IN  /\ \A a, b \in DOMAIN heap :
                  a < b => heap[a].timestamp < heap[b].timestamp
            /\ \A a \in DOMAIN heap :
                  \E c \in 0..i : heap[a].timestamp = c * delay

====
